---- MODULE Spec2Model ----
(***************************************************************************)
(* A model of the comb parser-combinator library (comb/src/lib.rs).        *)
(*                                                                         *)
(* A parser is a pure function from an input view (&str) to a ParseResult. *)
(* Parsers are modelled as syntax trees (records op/arg/subs), and Eval    *)
(* runs a tree on a view exactly as the closures of lib.rs do.  A view is  *)
(* a window (buf, lo, hi): buf names the backing buffer, either the input  *)
(* buffer "in" or the static empty string literal "lit" of whitespace().   *)
(* Beside Ok and Err, a call can panic (slice index out of range, usize    *)
(* underflow) or never return (a while-let loop that makes no progress);   *)
(* both are outcomes of Eval.                                              *)
(***************************************************************************)
EXTENDS Integers, Sequences, FiniteSets, TLC

VARIABLES
    input,      \* the characters of the input buffer handed to the parser
    litAddr,    \* address of the static "" literal, relative to the input buffer
    pc,         \* "idle" | "many" | "done" | "hung"
    parser,     \* the parser being invoked (syntax tree)
    outcome,    \* the result of the finished invocation
    mi,         \* many(): the loop variable i
    mr          \* many(): the vector r

vars == <<input, litAddr, pc, parser, outcome, mi, mr>>

\* Longest input buffer explored.
MaxLen == 4

\* Cap on the length of the vector r of the stepwise many() loop.
MaxIter == MaxLen + 2

Strings(A) == UNION {[1..n -> A] : n \in 0..MaxLen}

(***************************************************************************)
(* Characters and the char predicates the library uses.  Every character   *)
(* of the model is one byte long (ASCII), so char and byte offsets agree.  *)
(***************************************************************************)
AsciiDigits == {"0", "1", "2", "3"}
is_numeric(c) == c \in AsciiDigits
is_whitespace(c) == c \in {" ", "\t", "\n", "\r"}
is_alphabetic(c) == c \in {"a", "b", "e", "E", "x"}

CharPred(name, c) ==
    CASE name = "numeric" -> is_numeric(c)
      [] name = "alphabetic" -> is_alphabetic(c)
      [] name = "alphanumeric" -> is_numeric(c) \/ is_alphabetic(c)
      [] name = "whitespace" -> is_whitespace(c)
      [] OTHER -> FALSE

(***************************************************************************)
(* Input views.                                                            *)
(***************************************************************************)
WholeInput == [buf |-> "in", lo |-> 0, hi |-> Len(input)]
LitEmpty == [buf |-> "lit", lo |-> 0, hi |-> 0]

Content(v) == IF v.buf = "in" THEN SubSeq(input, v.lo + 1, v.hi) ELSE <<>>
ViewLen(v) == v.hi - v.lo
\* as_ptr(): the input buffer starts at address 0, the literal at litAddr
as_ptr(v) == IF v.buf = "in" THEN v.lo ELSE litAddr + v.lo
\* &i[x..]
SliceFrom(v, x) == [buf |-> v.buf, lo |-> v.lo + x, hi |-> v.hi]
\* the characters of &i[..x]
Prefix(v, x) == SubSeq(Content(v), 1, x)

starts_with(s, t) == Len(t) <= Len(s) /\ SubSeq(s, 1, Len(t)) = t

\* str::find(pattern: &str): byte offset of the first match, -1 for None
RECURSIVE FindFrom(_, _, _)
FindFrom(s, t, x) ==
    IF x + Len(t) > Len(s) THEN -1
    ELSE IF SubSeq(s, x + 1, x + Len(t)) = t THEN x
    ELSE FindFrom(s, t, x + 1)
find_str(s, t) == FindFrom(s, t, 0)

\* str::find(pattern: closure): offset of the first char satisfying it, -1 for None
RECURSIVE FindCharFrom(_, _, _, _)
FindCharFrom(s, name, negate, x) ==
    IF x >= Len(s) THEN -1
    ELSE IF CharPred(name, s[x + 1]) # negate THEN x
    ELSE FindCharFrom(s, name, negate, x + 1)
find_not(s, name) == FindCharFrom(s, name, TRUE, 0)

(***************************************************************************)
(* Values and outcomes.  ran is a ghost field: the views on which the      *)
(* combinator that produced the outcome invoked its direct sub-parsers, in *)
(* order of invocation.                                                    *)
(***************************************************************************)
Str(s) == [t |-> "str", s |-> s]
None == [t |-> "none"]
Some(v) == [t |-> "some", v |-> v]
Tuple(xs) == [t |-> "tuple", xs |-> xs]
Vec(xs) == [t |-> "vec", xs |-> xs]
Const(c) == [t |-> "const", c |-> c]

Ok(rem, val) == [k |-> "Ok", rem |-> rem, val |-> val, ran |-> <<>>]
Err(at, kind) == [k |-> "Err", at |-> at, kind |-> kind, ran |-> <<>>]
Panic == [k |-> "Panic", ran |-> <<>>]
Diverge == [k |-> "Diverge", ran |-> <<>>]
NoOutcome == [k |-> "None", ran |-> <<>>]

Ran(o, r) == [o EXCEPT !.ran = r]
Result(o) == [o EXCEPT !.ran = <<>>]
Returns(o) == o.k \in {"Ok", "Err"}

(***************************************************************************)
(* Parser syntax trees.                                                    *)
(***************************************************************************)
Node(op, arg, subs) == [op |-> op, arg |-> arg, subs |-> subs]
P_tag(l) == Node("tag", l, <<>>)
P_take_while(name) == Node("take_while", <<name>>, <<>>)
P_take_until(l) == Node("take_until", l, <<>>)
P_eoi == Node("eoi", <<>>, <<>>)
P_whitespace == Node("whitespace", <<>>, <<>>)
P_double == Node("double", <<>>, <<>>)
P_value(p, c) == Node("value", <<c>>, <<p>>)
P_map(p, f) == Node("map", <<f>>, <<p>>)
P_map_res(p, f) == Node("map_res", <<f>>, <<p>>)
P_opt(p) == Node("opt", <<>>, <<p>>)
P_peek(p) == Node("peek", <<>>, <<p>>)
P_recognize(p) == Node("recognize", <<>>, <<p>>)
P_check(p, f) == Node("check", <<f>>, <<p>>)
P_many(p) == Node("many", <<>>, <<p>>)
P_boxed(p) == Node("boxed", <<>>, <<p>>)
P_w(p) == Node("w", <<>>, <<p>>)
P_pair(a, b) == Node("pair", <<>>, <<a, b>>)
P_left(a, b) == Node("left", <<>>, <<a, b>>)
P_right(a, b) == Node("right", <<>>, <<a, b>>)
P_either(a, b) == Node("either", <<>>, <<a, b>>)
P_chain(sep, p) == Node("chain", <<>>, <<sep, p>>)
P_infix(p, o) == Node("infix", <<>>, <<p, o>>)
P_prefix(p, q) == Node("prefix", <<>>, <<p, q>>)
P_trio(a, b, c) == Node("trio", <<>>, <<a, b, c>>)
P_middle(a, b, c) == Node("middle", <<>>, <<a, b, c>>)
P_outer(a, b, c) == Node("outer", <<>>, <<a, b, c>>)
P_choice(ps) == Node("choice", <<>>, ps)

RECURSIVE Eval(_, _)

(***************************************************************************)
(* Primitive matchers.                                                     *)
(***************************************************************************)
tag(t, i) ==
    IF starts_with(Content(i), t)
    THEN Ok(SliceFrom(i, Len(t)), Str(t))
    ELSE Err(i, "Tag")

take_while(name, i) ==
    LET x == find_not(Content(i), name) IN
    IF x = 0 THEN Err(i, "TakeWhile")
    ELSE IF x > 0 THEN Ok(SliceFrom(i, x), Str(Prefix(i, x)))
    ELSE IF ViewLen(i) > 0 THEN Ok(SliceFrom(i, ViewLen(i)), Str(Content(i)))
    ELSE Err(i, "TakeWhile")

\* take_until that swallows the whole input when the literal is missing
take_until_consumes_all(t, i) ==
    LET x == find_str(Content(i), t) IN
    IF x < 0 THEN Ok(SliceFrom(i, ViewLen(i)), Str(Content(i)))
    ELSE Ok(SliceFrom(i, x), Str(Prefix(i, x)))

take_until(t, i) ==
    LET x == find_str(Content(i), t) IN
    IF x < 0 THEN Ok(i, Str(<<>>))
    ELSE Ok(SliceFrom(i, x), Str(Prefix(i, x)))

eoi(i) ==
    IF ViewLen(i) = 0 THEN Ok(i, Str(<<>>)) ELSE Err(i, "Eof")

whitespace(i) ==
    LET x == find_not(Content(i), "whitespace") IN
    IF x >= 0 THEN Ok(SliceFrom(i, x), Str(Prefix(i, x)))
    ELSE Ok(LitEmpty, Str(Content(i)))

(***************************************************************************)
(* The closures handed to map, map_res and check.                          *)
(***************************************************************************)
DigitVal(c) == CASE c = "0" -> 0 [] c = "1" -> 1 [] c = "2" -> 2 [] c = "3" -> 3

\* length of the run of ASCII digits of s that starts at position k (1-based)
RECURSIVE DigitRun(_, _)
DigitRun(s, k) ==
    IF k <= Len(s) /\ s[k] \in AsciiDigits THEN 1 + DigitRun(s, k + 1) ELSE 0

\* the number written by the digits s[k], ..., s[k + n - 1]
RECURSIVE DigitsNat(_, _, _)
DigitsNat(s, k, n) ==
    IF n = 0 THEN 0 ELSE 10 * DigitsNat(s, k, n - 1) + DigitVal(s[k + n - 1])

\* m * 10^e without trailing zeros in m
RECURSIVE Normal(_, _)
Normal(m, e) ==
    IF m = 0 THEN <<0, 0>>
    ELSE IF m % 10 = 0 THEN Normal(m \div 10, e + 1)
    ELSE <<m, e>>

IsSign(s, k) == k <= Len(s) /\ s[k] \in {"+", "-"}

\* <f64 as FromStr>::from_str on a string of ASCII characters:
\* Sign? (Digit+ | Digit+ '.' Digit* | Digit* '.' Digit+) (('e' | 'E') Sign? Digit+)?
parse_f64(s) ==
    LET p1 == IF IsSign(s, 1) THEN 2 ELSE 1
        n1 == DigitRun(s, p1)
        p2 == p1 + n1
        dot == p2 <= Len(s) /\ s[p2] = "."
        p3 == IF dot THEN p2 + 1 ELSE p2
        n2 == IF dot THEN DigitRun(s, p3) ELSE 0
        p4 == p3 + n2
        hasExp == p4 <= Len(s) /\ s[p4] \in {"e", "E"}
        p5 == IF hasExp /\ IsSign(s, p4 + 1) THEN p4 + 2 ELSE p4 + 1
        n3 == IF hasExp THEN DigitRun(s, p5) ELSE 0
        pend == IF hasExp THEN p5 + n3 ELSE p4
        ex == IF hasExp /\ s[p4 + 1] = "-" THEN 0 - DigitsNat(s, p5, n3)
              ELSE DigitsNat(s, p5, n3)
        mant == DigitsNat(s, p1, n1) * (10 ^ n2) + DigitsNat(s, p3, n2)
        nm == Normal(mant, ex - n2)
    IN  IF n1 + n2 = 0 \/ (hasExp /\ n3 = 0) \/ pend # Len(s) + 1
        THEN [ok |-> FALSE, v |-> None]
        ELSE [ok |-> TRUE,
              v |-> [t |-> "f64", neg |-> (s[1] = "-"), mant |-> nm[1], exp |-> nm[2]]]

\* <i32 as FromStr>::from_str: Sign? Digit+
parse_i32(s) ==
    LET p1 == IF IsSign(s, 1) THEN 2 ELSE 1
        n1 == DigitRun(s, p1)
    IN  IF n1 = 0 \/ p1 + n1 # Len(s) + 1
        THEN [ok |-> FALSE, v |-> None]
        ELSE [ok |-> TRUE,
              v |-> [t |-> "i32", neg |-> (s[1] = "-"), n |-> DigitsNat(s, p1, n1)]]

\* the fallible closures F: Fn(A) -> Result<B, E> of map_res
ApplyRes(f, v) ==
    CASE f = "parse_f64" -> parse_f64(v.s)
      [] f = "parse_i32" -> parse_i32(v.s)

\* the total closures F: Fn(A) -> B of map; join is the closure of chain
ApplyFn(f, v) ==
    CASE f = "join" -> Vec(<<v.xs[1]>> \o v.xs[2].xs)
      [] f = "Box::new" -> [t |-> "box", v |-> v]
      [] f = "id" -> v

\* the predicates F: Fn(&R) -> bool of check
ApplyPred(f, v) ==
    CASE f = "true" -> TRUE
      [] f = "false" -> FALSE
      [] f = "len1" -> v.t = "str" /\ Len(v.s) = 1
      [] f = "nonempty" -> v.t = "str" /\ Len(v.s) > 0

(***************************************************************************)
(* Transform combinators.  Each takes the syntax trees of its inner        *)
(* parsers and the view i of the call.  A panic or a non-returning loop of *)
(* an inner parser unwinds through every combinator.                       *)
(***************************************************************************)
value(p, c, i) ==
    LET o == Eval(p, i) IN
    Ran(IF o.k = "Ok" THEN Ok(o.rem, Const(c)) ELSE o, <<i>>)

map(p, f, i) ==
    LET o == Eval(p, i) IN
    Ran(IF o.k = "Ok" THEN Ok(o.rem, ApplyFn(f, o.val)) ELSE o, <<i>>)

map_res(p, f, i) ==
    LET o == Eval(p, i) IN
    Ran(IF o.k = "Ok"
        THEN LET r == ApplyRes(f, o.val) IN
             IF r.ok THEN Ok(o.rem, r.v) ELSE Err(o.rem, "MapRes")
        ELSE o, <<i>>)

\* opt that resumes where the inner parser gave up instead of at its own input
opt_resumes_at_failure(p, i) ==
    LET o == Eval(p, i) IN
    Ran(CASE o.k = "Ok" -> Ok(o.rem, Some(o.val))
          [] o.k = "Err" -> Ok(o.at, None)
          [] OTHER -> o, <<i>>)

opt(p, i) ==
    LET o == Eval(p, i) IN
    Ran(CASE o.k = "Ok" -> Ok(o.rem, Some(o.val))
          [] o.k = "Err" -> Ok(i, None)
          [] OTHER -> o, <<i>>)

peek(p, i) ==
    LET o == Eval(p, i) IN
    Ran(IF o.k = "Ok" THEN Ok(i, o.val) ELSE o, <<i>>)

\* i2.as_ptr() as usize - i.as_ptr() as usize underflows when i2 lies below i
\* (a panic with overflow checks, a huge index without), and &i[..n] panics
\* when n is past the end of i
recognize(p, i) ==
    LET o == Eval(p, i) IN
    Ran(IF o.k = "Ok"
        THEN LET n == as_ptr(o.rem) - as_ptr(i) IN
             IF n < 0 \/ n > ViewLen(i) THEN Panic
             ELSE Ok(o.rem, Str(Prefix(i, n)))
        ELSE o, <<i>>)

check(p, f, i) ==
    LET o == Eval(p, i) IN
    Ran(IF o.k = "Ok" /\ ApplyPred(f, o.val) THEN Ok(o.rem, o.val)
        ELSE IF Returns(o) THEN Err(i, "Check")
        ELSE o, <<i>>)

(***************************************************************************)
(* Structural combinators.                                                 *)
(***************************************************************************)
pair(a, b, i) ==
    LET oa == Eval(a, i) IN
    IF oa.k # "Ok" THEN Ran(oa, <<i>>)
    ELSE LET ob == Eval(b, oa.rem) IN
         Ran(IF ob.k = "Ok" THEN Ok(ob.rem, Tuple(<<oa.val, ob.val>>)) ELSE ob,
             <<i, oa.rem>>)

trio(a, b, c, i) ==
    LET oa == Eval(a, i) IN
    IF oa.k # "Ok" THEN Ran(oa, <<i>>)
    ELSE LET ob == Eval(b, oa.rem) IN
         IF ob.k # "Ok" THEN Ran(ob, <<i, oa.rem>>)
         ELSE LET oc == Eval(c, ob.rem) IN
              Ran(IF oc.k = "Ok"
                  THEN Ok(oc.rem, Tuple(<<oa.val, ob.val, oc.val>>)) ELSE oc,
                  <<i, oa.rem, ob.rem>>)

\* right that reports the second parser's failure at its own input
right_fails_at_input(a, b, i) ==
    LET oa == Eval(a, i) IN
    IF oa.k # "Ok" THEN Ran(oa, <<i>>)
    ELSE LET ob == Eval(b, oa.rem) IN
         Ran(IF ob.k = "Ok" THEN Ok(ob.rem, ob.val)
             ELSE IF ob.k = "Err" THEN Err(i, ob.kind)
             ELSE ob, <<i, oa.rem>>)

right(a, b, i) ==
    LET oa == Eval(a, i) IN
    IF oa.k # "Ok" THEN Ran(oa, <<i>>)
    ELSE LET ob == Eval(b, oa.rem) IN
         Ran(IF ob.k = "Ok" THEN Ok(ob.rem, ob.val) ELSE ob, <<i, oa.rem>>)

left(a, b, i) ==
    LET oa == Eval(a, i) IN
    IF oa.k # "Ok" THEN Ran(oa, <<i>>)
    ELSE LET ob == Eval(b, oa.rem) IN
         Ran(IF ob.k = "Ok" THEN Ok(ob.rem, oa.val) ELSE ob, <<i, oa.rem>>)

middle(a, b, c, i) ==
    LET oa == Eval(a, i) IN
    IF oa.k # "Ok" THEN Ran(oa, <<i>>)
    ELSE LET ob == Eval(b, oa.rem) IN
         IF ob.k # "Ok" THEN Ran(ob, <<i, oa.rem>>)
         ELSE LET oc == Eval(c, ob.rem) IN
              Ran(IF oc.k = "Ok" THEN Ok(oc.rem, ob.val) ELSE oc,
                  <<i, oa.rem, ob.rem>>)

outer(a, b, c, i) ==
    LET oa == Eval(a, i) IN
    IF oa.k # "Ok" THEN Ran(oa, <<i>>)
    ELSE LET ob == Eval(b, oa.rem) IN
         IF ob.k # "Ok" THEN Ran(ob, <<i, oa.rem>>)
         ELSE LET oc == Eval(c, ob.rem) IN
              Ran(IF oc.k = "Ok"
                  THEN Ok(oc.rem, Tuple(<<oa.val, oc.val>>)) ELSE oc,
                  <<i, oa.rem, ob.rem>>)

(***************************************************************************)
(* Alternation combinators.                                                *)
(***************************************************************************)
either(a, b, i) ==
    LET oa == Eval(a, i) IN
    IF oa.k = "Err" THEN Ran(Eval(b, i), <<i, i>>) ELSE Ran(oa, <<i>>)

\* ps.iter().find_map(|p| p(i).ok()): the parsers from index n on
RECURSIVE find_map(_, _, _)
find_map(ps, n, i) ==
    IF n > Len(ps) THEN Err(i, "Choice")
    ELSE LET o == Eval(ps[n], i) IN
         IF o.k = "Err" THEN LET rest == find_map(ps, n + 1, i) IN
                             Ran(rest, <<i>> \o rest.ran)
         ELSE Ran(o, <<i>>)

\* choice that keeps looking after a match and returns the last one
RECURSIVE last_match(_, _, _, _)
last_match(ps, n, i, best) ==
    IF n > Len(ps) THEN best
    ELSE LET o == Eval(ps[n], i) IN
         last_match(ps, n + 1, i,
                    Ran(IF o.k = "Err" THEN best ELSE o, Append(best.ran, i)))

choice_takes_last(ps, i) == last_match(ps, 1, i, Err(i, "Choice"))

choice(ps, i) == find_map(ps, 1, i)

(***************************************************************************)
(* Repetition combinators.                                                 *)
(***************************************************************************)
\* The while-let loop of many from the state (i, r); rn lists the views p ran
\* on.  p is a pure function of the view: once p(i) returns Ok with the
\* remaining view i itself, every later iteration does the same and the loop
\* never exits.
RECURSIVE many_loop(_, _, _, _)
many_loop(p, i, r, rn) ==
    LET o == Eval(p, i) IN
    IF o.k = "Ok"
    THEN IF o.rem = i THEN Diverge
         ELSE many_loop(p, o.rem, Append(r, o.val), Append(rn, i))
    ELSE IF o.k = "Err" THEN Ran(Ok(i, Vec(r)), Append(rn, i))
    ELSE o

many(p, i) == many_loop(p, i, <<>>, <<>>)

\* chain without the optional trailing separator
chain_no_trailing_sep(sep, p, i) ==
    LET o == Eval(P_map(P_pair(p, P_many(P_right(sep, p))), "join"), i) IN
    Ran(IF o.k = "Err" THEN Ok(i, Vec(<<>>)) ELSE o, <<i>>)

chain(sep, p, i) ==
    LET o == Eval(P_map(P_pair(p, P_left(P_many(P_right(sep, p)), P_opt(sep))),
                        "join"), i) IN
    Ran(IF o.k = "Err" THEN Ok(i, Vec(<<>>)) ELSE o, <<i>>)

w(p, i) == right(P_whitespace, p, i)

\* infix that also skips whitespace before each operand
infix_skips_before_operand(p, o, i) == pair(p, P_many(P_pair(P_w(o), P_w(p))), i)

infix(p, o, i) == pair(p, P_many(P_pair(P_w(o), p)), i)

prefix(p, q, i) == pair(P_many(P_w(p)), q, i)

boxed(p, i) == map(p, "Box::new", i)

(***************************************************************************)
(* The decimal literal parser.                                             *)
(***************************************************************************)
D_digit == P_take_while("numeric")
D_sign == P_opt(P_either(P_tag(<<"+">>), P_tag(<<"-">>)))
D_num == P_value(P_pair(D_digit, P_opt(P_pair(P_tag(<<".">>), P_opt(D_digit)))), "0")
D_frac == P_value(P_pair(P_tag(<<".">>), D_digit), "0")
\* an exponent whose digits are optional
D_exp_digits_optional ==
    P_opt(P_trio(P_either(P_tag(<<"e">>), P_tag(<<"E">>)), D_sign, P_opt(D_digit)))

D_exp == P_opt(P_trio(P_either(P_tag(<<"e">>), P_tag(<<"E">>)), D_sign, D_digit))

double(i) ==
    Eval(P_map_res(P_recognize(P_trio(D_sign, P_either(D_num, D_frac), D_exp)),
                   "parse_f64"), i)

(***************************************************************************)
(* Running a parser on a view.                                             *)
(***************************************************************************)
Eval(p, i) ==
    CASE p.op = "tag" -> tag(p.arg, i)
      [] p.op = "take_while" -> take_while(p.arg[1], i)
      [] p.op = "take_until" -> take_until(p.arg, i)
      [] p.op = "eoi" -> eoi(i)
      [] p.op = "whitespace" -> whitespace(i)
      [] p.op = "double" -> double(i)
      [] p.op = "value" -> value(p.subs[1], p.arg[1], i)
      [] p.op = "map" -> map(p.subs[1], p.arg[1], i)
      [] p.op = "map_res" -> map_res(p.subs[1], p.arg[1], i)
      [] p.op = "opt" -> opt(p.subs[1], i)
      [] p.op = "peek" -> peek(p.subs[1], i)
      [] p.op = "recognize" -> recognize(p.subs[1], i)
      [] p.op = "check" -> check(p.subs[1], p.arg[1], i)
      [] p.op = "many" -> many(p.subs[1], i)
      [] p.op = "boxed" -> boxed(p.subs[1], i)
      [] p.op = "w" -> w(p.subs[1], i)
      [] p.op = "pair" -> pair(p.subs[1], p.subs[2], i)
      [] p.op = "left" -> left(p.subs[1], p.subs[2], i)
      [] p.op = "right" -> right(p.subs[1], p.subs[2], i)
      [] p.op = "either" -> either(p.subs[1], p.subs[2], i)
      [] p.op = "chain" -> chain(p.subs[1], p.subs[2], i)
      [] p.op = "infix" -> infix(p.subs[1], p.subs[2], i)
      [] p.op = "prefix" -> prefix(p.subs[1], p.subs[2], i)
      [] p.op = "trio" -> trio(p.subs[1], p.subs[2], p.subs[3], i)
      [] p.op = "middle" -> middle(p.subs[1], p.subs[2], p.subs[3], i)
      [] p.op = "outer" -> outer(p.subs[1], p.subs[2], p.subs[3], i)
      [] p.op = "choice" -> choice(p.subs, i)

(***************************************************************************)
(* The state machine: a caller picks an input buffer and invokes a parser  *)
(* on the whole of it.                                                     *)
(***************************************************************************)
\* where the static "" can lie: below the buffer, or 1 or 2 bytes into (or past) it
LitAddrs == {-1, 1, 2}

InitOver(A) ==
    /\ input \in Strings(A)
    /\ litAddr \in LitAddrs
    /\ pc = "idle"
    /\ parser = P_eoi
    /\ outcome = NoOutcome
    /\ mi = WholeInput
    /\ mr = <<>>

\* one call p(input), from entry to return (or to the panic, or never returning)
Call(p) ==
    /\ pc = "idle"
    /\ parser' = p
    /\ outcome' = Eval(p, WholeInput)
    /\ pc' = IF outcome'.k = "Diverge" THEN "hung" ELSE "done"
    /\ UNCHANGED <<input, litAddr, mi, mr>>

(***************************************************************************)
(* Spec: primitives, check, recognize, opt, chain, and the loop of many    *)
(* step by step, on inputs over the characters '1', ',' and ' '.           *)
(***************************************************************************)
Alphabet == {"1", ",", " "}

Lits == {<<"1">>, <<",">>, <<"1", ",">>}

Primitives ==
    {P_tag(l) : l \in Lits} \cup {P_take_until(l) : l \in Lits \cup {<<>>}}
        \cup {P_take_while("numeric"), P_eoi, P_whitespace}

\* inner parsers handed to the transform and repetition combinators
Inner ==
    { P_tag(<<"1">>), P_take_while("numeric"), P_eoi, P_whitespace,
      P_take_until(<<",">>),
      P_pair(P_tag(<<"1">>), P_tag(<<",">>)),
      P_w(P_tag(<<"1">>)),
      P_opt(P_tag(<<"1">>)),
      P_peek(P_tag(<<"1">>)),
      P_map_res(P_take_until(<<",">>), "parse_i32"),
      P_many(P_tag(<<"1">>)),
      P_many(P_opt(P_tag(<<"1">>))),
      P_recognize(P_whitespace) }

Preds == {"true", "false", "len1"}

Seps == {P_tag(<<",">>), P_opt(P_tag(<<",">>)), P_whitespace,
         P_pair(P_tag(<<",">>), P_tag(<<" ">>))}

Elems == {P_tag(<<"1">>), P_take_while("numeric"), P_opt(P_tag(<<"1">>)),
          P_pair(P_tag(<<"1">>), P_tag(<<"1">>)), P_eoi}

Init == InitOver(Alphabet)

CallPrimitive == \E p \in Primitives : Call(p)
CallCheck == \E p \in Inner, f \in Preds : Call(P_check(p, f))
CallRecognize == \E p \in Inner : Call(P_recognize(p))
CallOpt == \E p \in Inner : Call(P_opt(p))
CallChain == \E sep \in Seps, p \in Elems : Call(P_chain(sep, p))

\* many(p)(input), one step per evaluation of the while-let condition
ManyEnter ==
    /\ pc = "idle"
    /\ \E p \in Inner : parser' = P_many(p)
    /\ pc' = "many"
    /\ mi' = WholeInput
    /\ mr' = <<>>
    /\ UNCHANGED <<input, litAddr, outcome>>

\* while let Ok((next_input, next_item)) = p(i) { i = next_input; r.push(next_item); }
ManyIter ==
    /\ pc = "many"
    /\ Len(mr) < MaxIter
    /\ LET o == Eval(parser.subs[1], mi) IN
        /\ o.k = "Ok"
        /\ mi' = o.rem
        /\ mr' = Append(mr, o.val)
    /\ UNCHANGED <<input, litAddr, pc, parser, outcome>>

\* p(i) is an Err: the loop ends with Ok((i, r))
ManyExit ==
    /\ pc = "many"
    /\ Eval(parser.subs[1], mi).k = "Err"
    /\ outcome' = Ok(mi, Vec(mr))
    /\ pc' = "done"
    /\ UNCHANGED <<input, litAddr, parser, mi, mr>>

\* p(i) panics or does not return: so does many
ManyUnwind ==
    /\ pc = "many"
    /\ LET o == Eval(parser.subs[1], mi) IN
        /\ ~Returns(o)
        /\ outcome' = o
        /\ pc' = IF o.k = "Diverge" THEN "hung" ELSE "done"
    /\ UNCHANGED <<input, litAddr, parser, mi, mr>>

Next ==
    \/ CallPrimitive
    \/ CallCheck
    \/ CallRecognize
    \/ CallOpt
    \/ CallChain
    \/ ManyEnter
    \/ ManyIter
    \/ ManyExit
    \/ ManyUnwind

Spec == Init /\ [][Next]_vars

\* The stepwise loop and many() agree: a loop that returns returns what
\* many() computes, and a loop that reaches the cap is one that never exits.
ManyAgrees ==
    /\ (parser.op = "many" /\ pc \in {"done", "hung"})
        => Result(outcome) = Result(Eval(parser, WholeInput))
    /\ (pc = "many" /\ Len(mr) = MaxIter)
        => Eval(parser, WholeInput).k = "Diverge"

(***************************************************************************)
(* Properties of Spec.                                                     *)
(***************************************************************************)
SameFailure(o, e) ==
    o.k = "Err" /\ Content(o.at) = Content(e.at) /\ o.kind = e.kind

\* C1: when the inner parser P fails with Failure(at, kind), check(P, f) fails
\* with that same (at, kind); the failure is not replaced by kind Check.
C1_CheckForwardsInnerFailure ==
    (pc = "done" /\ parser.op = "check")
        => LET e == Eval(parser.subs[1], WholeInput) IN
           e.k = "Err" => SameFailure(outcome, e)

\* C2: no repetition loop iterates again without the remaining input having
\* become strictly shorter (so every invocation on a finite input terminates).
C2_LoopShortensInput ==
    [][(pc = "many" /\ pc' = "many") => ViewLen(mi') < ViewLen(mi)]_vars

\* C3 (I1): on success the remaining view is a window over the same backing
\* buffer as the input view, with the same end offset and a start offset that
\* is not below the input's.
C3_RemainingIsSuffix ==
    (pc = "done" /\ outcome.k = "Ok")
        => /\ outcome.rem.buf = WholeInput.buf
           /\ outcome.rem.hi = WholeInput.hi
           /\ outcome.rem.lo >= WholeInput.lo
           /\ outcome.rem.lo <= outcome.rem.hi

\* C4: if P(I) succeeds with remaining rem, recognize(P)(I) succeeds with rem
\* and the first len(I) - len(rem) characters of I as its value, and never
\* panics; if P(I) fails, recognize(P)(I) fails with the same failure.
C4_RecognizeConsumedSpan ==
    (pc = "done" /\ parser.op = "recognize")
        => LET o == Eval(parser.subs[1], WholeInput) IN
           /\ o.k = "Ok"
               => /\ outcome.k = "Ok"
                  /\ outcome.rem = o.rem
                  /\ outcome.val = Str(SubSeq(input, 1, Len(input) - ViewLen(o.rem)))
           /\ o.k = "Err" => SameFailure(outcome, o)

\* the parser whose first attempt decides an empty result
FirstParser(p) == IF p.op = "chain" THEN p.subs[2] ELSE p.subs[1]
EmptyValue(p) == IF p.op = "opt" THEN None ELSE Vec(<<>>)

\* C5 (I3): opt(P), many(P) and chain(SEP, P) never return Failure; when the
\* inner parser fails at the first attempt they return Success(I, None) resp.
\* Success(I, empty sequence), with I itself as the remaining view.
C5_NeverFail ==
    (pc = "done" /\ parser.op \in {"opt", "many", "chain"})
        => /\ outcome.k # "Err"
           /\ Eval(FirstParser(parser), WholeInput).k = "Err"
               => /\ outcome.k = "Ok"
                  /\ outcome.rem = WholeInput
                  /\ outcome.val = EmptyValue(parser)

\* chain absorbed the failure of a composite P that had advanced before failing
C5_Witness ==
    /\ pc = "done"
    /\ parser.op = "chain"
    /\ LET e == Eval(parser.subs[2], WholeInput) IN
        e.k = "Err" /\ e.at # WholeInput
    /\ outcome = Ran(Ok(WholeInput, Vec(<<>>)), <<WholeInput>>)

\* The complete (SEP then P) repetitions that follow the view u, in order: the
\* values of P collected so far, and the view after the last complete
\* repetition and one further SEP if there is one.  n bounds the repetitions.
RECURSIVE Repetitions(_, _, _, _, _)
Repetitions(sep, p, u, vals, n) ==
    LET os == Eval(sep, u) IN
    IF os.k # "Ok" THEN [rem |-> u, vals |-> vals]
    ELSE LET op == Eval(p, os.rem) IN
         IF op.k = "Ok" /\ n > 0
         THEN Repetitions(sep, p, op.rem, Append(vals, op.val), n - 1)
         ELSE [rem |-> os.rem, vals |-> vals]

\* C6: when the first P succeeds, chain(SEP, P)(I) returns the value of the
\* first P followed in order by the values of P of every consecutive complete
\* (SEP then P) repetition; its remaining view is the one after the last
\* complete repetition, with one further trailing SEP consumed if present.
C6_ChainValues ==
    (pc = "done" /\ parser.op = "chain")
        => LET first == Eval(parser.subs[2], WholeInput) IN
           first.k = "Ok"
               => LET reps == Repetitions(parser.subs[1], parser.subs[2],
                                          first.rem, <<first.val>>, MaxIter) IN
                  /\ outcome.k = "Ok"
                  /\ outcome.rem = reps.rem
                  /\ outcome.val = Vec(reps.vals)

\* chain(tag(","), tag("1")) on "1,1,": two values, the trailing "," consumed
C6_Witness ==
    /\ pc = "done"
    /\ parser = P_chain(P_tag(<<",">>), P_tag(<<"1">>))
    /\ input = <<"1", ",", "1", ",">>
    /\ outcome.k = "Ok"
    /\ outcome.val = Vec(<<Str(<<"1">>), Str(<<"1">>)>>)
    /\ Content(outcome.rem) = <<>>

\* offsets at which lit occurs in the input
Occurrences(lit) ==
    {x \in 0..Len(input) :
        x + Len(lit) <= Len(input) /\ SubSeq(input, x + 1, x + Len(lit)) = lit}

SeqAlphabet == {"a", "b"}

\* many(eoi) succeeds without consuming on a non-empty view and never returns
\* on the empty one
SeqSubs ==
    { P_tag(<<"a">>), P_tag(<<"b">>), P_opt(P_tag(<<"a">>)), P_eoi,
      P_many(P_eoi), P_pair(P_tag(<<"a">>), P_tag(<<"b">>)) }

Alts ==
    { P_tag(<<"a">>), P_tag(<<"b">>), P_opt(P_tag(<<"b">>)),
      P_pair(P_tag(<<"a">>), P_tag(<<"b">>)) }

\* the slices handed to choice: up to MaxAlts parsers
MaxAlts == 3
AltLists == UNION {[1..n -> Alts] : n \in 0..MaxAlts}

SeqInit == InitOver(SeqAlphabet)

CallPair == \E a \in SeqSubs, b \in SeqSubs : Call(P_pair(a, b))
CallLeft == \E a \in SeqSubs, b \in SeqSubs : Call(P_left(a, b))
CallRight == \E a \in SeqSubs, b \in SeqSubs : Call(P_right(a, b))
CallTrio == \E a \in SeqSubs, b \in SeqSubs, c \in SeqSubs : Call(P_trio(a, b, c))
CallMiddle == \E a \in SeqSubs, b \in SeqSubs, c \in SeqSubs : Call(P_middle(a, b, c))
CallOuter == \E a \in SeqSubs, b \in SeqSubs, c \in SeqSubs : Call(P_outer(a, b, c))
CallChoice == \E ps \in AltLists : Call(P_choice(ps))

SeqNext ==
    \/ CallPair
    \/ CallLeft
    \/ CallRight
    \/ CallTrio
    \/ CallMiddle
    \/ CallOuter
    \/ CallChoice

SpecSeq == SeqInit /\ [][SeqNext]_vars

SeqOps == {"pair", "trio", "left", "right", "middle", "outer"}

\* C8: pair, trio, left, right, middle and outer run their sub-parsers strictly
\* left to right, each on the remaining view of the previous one; at the first
\* sub-parser that fails no later one is run and its Failure is returned
\* unchanged; on success the remaining view is the last sub-parser's.
C8_Sequential ==
    (pc \in {"done", "hung"} /\ parser.op \in SeqOps)
        => LET subs == parser.subs
               ran == outcome.ran
               m == Len(ran)
           IN  /\ m \in 1..Len(subs)
               /\ ran[1] = WholeInput
               /\ \A k \in 1..(m - 1) :
                    LET o == Eval(subs[k], ran[k]) IN
                    o.k = "Ok" /\ ran[k + 1] = o.rem
               /\ LET last == Eval(subs[m], ran[m]) IN
                  IF last.k = "Ok"
                  THEN m = Len(subs) /\ outcome.k = "Ok" /\ outcome.rem = last.rem
                  ELSE Result(outcome) = Result(last)

\* right fails at a view past the input its first parser consumed
C8_Witness ==
    /\ pc = "done"
    /\ parser = P_right(P_tag(<<"a">>), P_tag(<<"b">>))
    /\ input = <<"a", "a">>
    /\ Result(outcome) = Err([buf |-> "in", lo |-> 1, hi |-> 2], "Tag")
    /\ Len(outcome.ran) = 2

\* C10: choice(ps)(I) applies the parsers of ps in order, each to I, and
\* returns the outcome of the first that succeeds without consulting the later
\* ones; if none succeeds (ps empty included) it fails with (I, Choice).
C10_Choice ==
    (pc = "done" /\ parser.op = "choice")
        => LET ps == parser.subs
               res(k) == Eval(ps[k], WholeInput)
               first == {k \in 1..Len(ps) :
                            res(k).k = "Ok" /\ \A j \in 1..(k - 1) : res(j).k = "Err"}
           IN  /\ \A k \in first :
                    /\ Result(outcome) = Result(res(k))
                    /\ outcome.ran = [j \in 1..k |-> WholeInput]
               /\ (\A k \in 1..Len(ps) : res(k).k = "Err")
                    => /\ Result(outcome) = Err(WholeInput, "Choice")
                       /\ outcome.ran = [j \in 1..Len(ps) |-> WholeInput]

\* two alternatives match with different results; the earlier one is returned
C10_Witness ==
    /\ pc = "done"
    /\ parser.op = "choice"
    /\ Len(parser.subs) >= 2
    /\ LET o1 == Eval(parser.subs[1], WholeInput)
           o2 == Eval(parser.subs[2], WholeInput)
       IN  /\ o1.k = "Ok" /\ o2.k = "Ok"
           /\ Result(o1) # Result(o2)
           /\ Result(outcome) = Result(o1)
           /\ Len(outcome.ran) = 1

(***************************************************************************)
(* SpecDouble: the decimal literal parser, on inputs over digits, '.',     *)
(* the exponent markers, '+' and a letter.                                 *)
(***************************************************************************)
DoubleAlphabet == {"2", ".", "e", "E", "+", "x"}

DoubleInit == InitOver(DoubleAlphabet)

CallDouble == Call(P_double)

DoubleNext == CallDouble

SpecDouble == DoubleInit /\ [][DoubleNext]_vars

\* m is a sign-and-mantissa: Sign? (Digit+ ('.' Digit*)? | '.' Digit+)
IsMantissa(m) ==
    LET p1 == IF IsSign(m, 1) THEN 2 ELSE 1
        n1 == DigitRun(m, p1)
        dot == p1 + n1 <= Len(m) /\ m[p1 + n1] = "."
        n2 == IF dot THEN DigitRun(m, p1 + n1 + 1) ELSE 0
    IN  /\ n1 + n2 > 0
        /\ p1 + n1 + (IF dot THEN 1 ELSE 0) + n2 = Len(m) + 1

\* the positions of an 'e' or 'E' that follows the mantissa and has no
\* (optionally signed) digits after it
DanglingExponents ==
    {k \in 1..Len(input) :
        /\ input[k] \in {"e", "E"}
        /\ IsMantissa(SubSeq(input, 1, k - 1))
        /\ DigitRun(input, IF IsSign(input, k + 1) THEN k + 2 ELSE k + 1) = 0}

\* C7 as stated: double returns Failure on a bare '.' and on an input whose
\* exponent marker has no following digits.
C7_DoubleRejects ==
    (pc = "done" /\ parser.op = "double"
        /\ (input = <<".">> \/ DanglingExponents # {}))
        => outcome.k = "Err"

\* C7 amended: double returns Failure on a bare '.'; on an input whose
\* exponent marker has no following digits it succeeds with the value of the
\* mantissa and leaves the marker and everything after it unconsumed.
C7_DoubleLeavesDanglingExponent ==
    (pc = "done" /\ parser.op = "double")
        => /\ input = <<".">> => outcome.k = "Err"
           /\ \A k \in DanglingExponents :
                /\ outcome.k = "Ok"
                /\ outcome.rem = [buf |-> "in", lo |-> k - 1, hi |-> Len(input)]
                /\ outcome.val = parse_f64(SubSeq(input, 1, k - 1)).v

\* "2e+": the value of "2", with "e+" left over
C7_Witness ==
    /\ pc = "done"
    /\ parser.op = "double"
    /\ input = <<"2", "e", "+">>
    /\ outcome.k = "Ok"
    /\ Content(outcome.rem) = <<"e", "+">>

(***************************************************************************)
(* SpecInfix: infix, on inputs over the characters '1', '+' and ' '.       *)
(***************************************************************************)
InfixAlphabet == {"1", "+", " "}

\* operands: w(tag("1")) is an operand that skips its own leading whitespace
Operands ==
    { P_tag(<<"1">>), P_take_while("numeric"), P_double,
      P_pair(P_tag(<<"1">>), P_tag(<<"1">>)), P_opt(P_tag(<<"1">>)),
      P_w(P_tag(<<"1">>)) }

Operators ==
    { P_tag(<<"+">>), P_pair(P_tag(<<"+">>), P_tag(<<"+">>)), P_opt(P_tag(<<"+">>)) }

InfixInit == InitOver(InfixAlphabet)

CallInfix == \E p \in Operands, o \in Operators : Call(P_infix(p, o))

InfixNext == CallInfix

SpecInfix == InfixInit /\ [][InfixNext]_vars

\* The complete (whitespace, O, P) repetitions that follow the view u, in
\* order: the (operator, operand) pairs collected so far and the view after
\* the last complete repetition.  Whitespace is skipped before O only.  n
\* bounds the repetitions.
RECURSIVE OperatorPairs(_, _, _, _, _)
OperatorPairs(p, o, u, pairs, n) ==
    LET ws == whitespace(u)
        oo == Eval(o, ws.rem)
    IN  IF oo.k # "Ok" THEN [rem |-> u, pairs |-> pairs]
        ELSE LET op == Eval(p, oo.rem) IN
             IF op.k = "Ok" /\ n > 0
             THEN OperatorPairs(p, o, op.rem,
                                Append(pairs, Tuple(<<oo.val, op.val>>)), n - 1)
             ELSE [rem |-> u, pairs |-> pairs]

\* C11: if P fails on I, infix(P, O)(I) is P's failure; otherwise it succeeds
\* with P's first value and the ordered (operator, operand) pairs of every
\* consecutive complete repetition of (optional whitespace, O, P), whitespace
\* being skipped before O only; the remaining view is the one after the last
\* complete repetition, so the whitespace and operator of an incomplete final
\* repetition are left unconsumed.
C11_Infix ==
    (pc = "done" /\ parser.op = "infix")
        => LET first == Eval(parser.subs[1], WholeInput) IN
           /\ first.k = "Err" => Result(outcome) = Result(first)
           /\ first.k = "Ok"
               => LET reps == OperatorPairs(parser.subs[1], parser.subs[2],
                                            first.rem, <<>>, MaxIter) IN
                  /\ outcome.k = "Ok"
                  /\ outcome.rem = reps.rem
                  /\ outcome.val = Tuple(<<first.val, Vec(reps.pairs)>>)

\* a complete repetition was collected, and an operator with no operand
\* directly after it is left in the remaining view
C11_Witness ==
    /\ pc = "done"
    /\ parser.op = "infix"
    /\ outcome.k = "Ok"
    /\ Len(outcome.val.xs[2].xs) >= 1
    /\ LET oo == Eval(P_w(parser.subs[2]), outcome.rem) IN
        /\ oo.k = "Ok"
        /\ ViewLen(oo.rem) < ViewLen(outcome.rem)
        /\ Eval(parser.subs[1], oo.rem).k = "Err"

====
